---------------------------- MODULE Spec2Model ----------------------------
(***************************************************************************)
(* A model of the citation tracker of src/fetch_citations.py: one run of   *)
(* main(), the paginated fetch over HTTP with the retries of               *)
(* _make_request, _parse_paper, the statistics and timeline computed by    *)
(* save_data, and the snapshot file it writes.                             *)
(*                                                                         *)
(* Specifications:                                                         *)
(*   Spec         one run of main(), every HTTP and file outcome           *)
(*   SpecStats    save_data applied to bounded paper lists                 *)
(*   SpecParse    _parse_paper applied to bounded raw records              *)
(*   SpecRequest  the fetch loop with max_retries drawn from 1..MaxTries   *)
(*   SpecCache    one run of main() that finds a cache file on disk        *)
(*   SpecPages    the fetch loop against a server that holds given pages   *)
(*   SpecLive     one run of main() in which every request completes       *)
(*                                                                         *)
(* Dates are the integers yyyymmdd: the order of these integers is the     *)
(* lexicographic order of the strings "YYYY-MM-DD" the program sorts and   *)
(* compares.  A title is a sequence of tokens (words and single blanks).   *)
(* avg_citations_per_month is kept in hundredths (2.5 is 250).             *)
(***************************************************************************)
EXTENDS Integers, Sequences, FiniteSets, TLC

VARIABLES
    pc,             \* where the run of main() stands
    apiKey,         \* whether SERPAPI_KEY is configured
    now,            \* datetime.now() of the run, as a date
    max_results,    \* the budget passed to fetch_citations
    max_retries,    \* the max_retries parameter of _make_request
    cache,          \* the cache file on disk when the run begins
    pages,          \* the pages the server holds, when the run is scripted
    raw,            \* the raw record given to _parse_paper (<<>>: none)
    parsed,         \* what _parse_paper made of it
    cites_id,       \* what _get_paper_cites_id returned ("" when not found)
    papers,         \* the list of Paper collected / returned / saved
    received,       \* the collected papers in the order they were received
    start,          \* the pagination offset of the fetch loop
    offsets,        \* the offsets of the page requests issued so far
    attempt,        \* the attempt index inside _make_request
    requests,       \* number of HTTP requests issued so far
    lastOutcome,    \* what the last HTTP attempt of a page request ended in
    slept,          \* seconds of time.sleep after the last HTTP attempt
    fetchResult,    \* how the fetch_citations call ended
    data,           \* the dict built by save_data / create_fallback_data
    lastIo,         \* outcome of the last attempt to write the snapshot file
    fileBefore,     \* the snapshot file as it was when the run began
    file,           \* the snapshot file on disk
    log             \* the set of messages logged so far

\* what no step of a run changes
inputs == <<apiKey, now, max_results, max_retries, cache, pages, raw,
            fileBefore>>

vars == <<pc, inputs, parsed, cites_id, papers, received, start, offsets,
          attempt, requests, lastOutcome, slept, fetchResult, data, lastIo,
          file, log>>

-----------------------------------------------------------------------------
(* Program constants *)

MaxRetries == 3             \* _make_request(..., max_retries = 3)
page_size == 100            \* page_size = 100 in both fetch loops
RateLimitDelay == 1         \* time.sleep(1) after each page
UnknownDate == 0            \* published_date = "Unknown"
SentinelDate == 19000101    \* "1900-01-01"
RecentCap == 5              \* min(5, total_citations)
months_since_publication == 1
NonInt == -1                \* stands for a citation total that is not a number

(* Bounds of the model *)

MaxBudget == 2      \* max_results is drawn from 1..MaxBudget
MaxPageLen == 2     \* records in one page of organic_results
MaxPages == 2       \* page requests of one fetch
MaxPapers == 5      \* length of the lists given to the statistics
MaxDated == 4       \* length of the lists with freely chosen dates
MaxTries == 4       \* max_retries is drawn from 1..MaxTries

-----------------------------------------------------------------------------
(* Generic helpers *)

Min(a, b) == IF a <= b THEN a ELSE b
Max(a, b) == IF a >= b THEN a ELSE b

SeqsUpTo(S, n) == UNION {[1..k -> S] : k \in 0..n}

RECURSIVE SetToSortedSeq(_)
SetToSortedSeq(S) ==
    IF S = {} THEN <<>>
    ELSE LET m == CHOOSE x \in S : \A y \in S : x <= y
         IN  <<m>> \o SetToSortedSeq(S \ {m})

-----------------------------------------------------------------------------
(* _calculate_stats *)

RECURSIVE InsertDesc(_, _)
InsertDesc(x, s) ==
    IF s = <<>> THEN <<x>>
    ELSE IF x >= Head(s) THEN <<x>> \o s
    ELSE <<Head(s)>> \o InsertDesc(x, Tail(s))

\* A sort that was forgotten: the counts stay in input order.
SortDescMutant(s) == s

\* citation_counts.sort(reverse=True)
RECURSIVE SortDesc(_)
SortDesc(s) ==
    IF s = <<>> THEN <<>> ELSE InsertDesc(Head(s), SortDesc(Tail(s)))

\* for i, count in enumerate(citation_counts): ... else: break
RECURSIVE HLoop(_, _, _)
HLoop(counts, i, h) ==
    IF i >= Len(counts) THEN h
    ELSE IF counts[i + 1] >= i + 1 THEN HLoop(counts, i + 1, i + 1)
    ELSE h

HIndex(ps) ==
    LET citation_counts == SortDesc([k \in 1..Len(ps) |-> ps[k].citations])
    IN  HLoop(citation_counts, 0, 0)

\* round(num / den, places), in hundredths; ties go to the even digit
RoundHundredths(num, den, places) ==
    LET unit == IF places = 1 THEN 10 ELSE 1    \* hundredths per last digit
        scaled == (num * 100) \div unit
        q == scaled \div den
        r == scaled % den
        n == IF 2 * r < den THEN q
             ELSE IF 2 * r > den THEN q + 1
             ELSE IF q % 2 = 0 THEN q ELSE q + 1
    IN  n * unit

\* Comparing a citation total that is not a number with an int raises TypeError.
CalculateStatsRaises(ps) == \E i \in 1..Len(ps) : ps[i].citations = NonInt

CalculateStats(ps) ==
    LET total_citations == Len(ps)
    IN  [total_citations |-> total_citations,
         recent_citations |-> Min(RecentCap, total_citations),
         avg_citations_per_month |->
            RoundHundredths(total_citations,
                            Max(months_since_publication, 1), 1),
         h_index |-> HIndex(ps)]

-----------------------------------------------------------------------------
(* _generate_timeline *)

\* daily_counts[date_key]
DailyCount(ps, d) ==
    Cardinality({i \in 1..Len(ps) : ps[i].published_date_sort = d})

\* the keys of daily_counts: every date other than the sentinel
DatedKeys(ps) ==
    {ps[i].published_date_sort : i \in 1..Len(ps)} \ {SentinelDate}

\* The running total forgotten: each entry holds its own day's count.
RECURSIVE CumulativeMutant(_, _, _)
CumulativeMutant(ps, sorted_dates, cumulative_count) ==
    IF sorted_dates = <<>> THEN <<>>
    ELSE <<[date |-> Head(sorted_dates),
            citations |-> DailyCount(ps, Head(sorted_dates))]>>
         \o CumulativeMutant(ps, Tail(sorted_dates), cumulative_count)

RECURSIVE Cumulative(_, _, _)
Cumulative(ps, sorted_dates, cumulative_count) ==
    IF sorted_dates = <<>> THEN <<>>
    ELSE LET c == cumulative_count + DailyCount(ps, Head(sorted_dates))
         IN  <<[date |-> Head(sorted_dates), citations |-> c]>>
             \o Cumulative(ps, Tail(sorted_dates), c)

\* The guards on an empty paper list forgotten.
GenerateTimelineMutant(ps, today) ==
    LET timeline == Cumulative(ps, SetToSortedSeq(DatedKeys(ps)), 0)
    IN  IF timeline = <<>>
        THEN <<[date |-> today, citations |-> Len(ps)]>>
        ELSE timeline

GenerateTimeline(ps, today) ==
    IF ps = <<>> THEN <<>>
    ELSE LET timeline == Cumulative(ps, SetToSortedSeq(DatedKeys(ps)), 0)
         IN  IF timeline = <<>> /\ ps # <<>>
             THEN <<[date |-> today, citations |-> Len(ps)]>>
             ELSE timeline

-----------------------------------------------------------------------------
(* Text: a string is a sequence of tokens *)

TargetId == "2502.13138"        \* self.arxiv_id
TargetUrl == "https://arxiv.org/abs/2502.13138"     \* self.target_paper_url

\* str.lower(), token by token
Lower(tok) ==
    CASE tok = "A" -> "a"
      [] tok = "B" -> "b"
      [] tok = "D" -> "d"
      [] tok = "F" -> "f"
      [] tok = "M" -> "m"
      [] tok = "N" -> "n"
      [] tok = "AIDE" -> "aide"
      [] tok = "arXiv" -> "arxiv"
      [] OTHER -> tok

LowerText(text) == [i \in 1..Len(text) |-> Lower(text[i])]

\* `tok in text`
Contains(text, tok) == \E i \in 1..Len(text) : text[i] = tok

-----------------------------------------------------------------------------
(* Raw records of organic_results, and _parse_paper *)

(* A raw record is described by what the code reads of it:                 *)
(*   isDict            whether the record is a JSON object                 *)
(*   hasTitle, title   the key 'title'                                     *)
(*   hasSnippet, snippet   the key 'snippet'                               *)
(*   link              the key 'link': absent or empty ("none"), a link    *)
(*                     matching arxiv.org/abs/YYMM.NNNNN ("arxiv", with    *)
(*                     its digits), any other link ("other")               *)
(*   publication_info  "absent", "object" or "null"                        *)
(*   authors           the key 'authors' of publication_info               *)
(*   summary           the key 'summary' of publication_info: its parts    *)
(*                     between ' - ' and, for each date pattern of the     *)
(*                     cascade, the groups of its first match (<<>> when   *)
(*                     the pattern does not match)                         *)
(*   inline_links, cited_by, hasTotal, total   the citation count          *)
(*   affiliations      the institution names _extract_institutions finds   *)

NoLink == [kind |-> "none", yy |-> 0, mm |-> 0, num |-> <<>>]
OtherLink == [kind |-> "other", yy |-> 0, mm |-> 0, num |-> <<>>]
ArxivLink(yy, mm, num) == [kind |-> "arxiv", yy |-> yy, mm |-> mm, num |-> num]

NoAuthors == [kind |-> "absent", names |-> <<>>]

NoSummary ==
    [present |-> FALSE, parts |-> <<>>, iso |-> <<>>, mdy |-> <<>>,
     slash |-> <<>>, my |-> <<>>, year |-> <<>>]

\* a summary in which no date pattern matches
PlainSummary(parts) == [NoSummary EXCEPT !.present = TRUE, !.parts = parts]

\* re.search(r'\b(19|20)\d{2}\b', summary) on a summary holding the year y
YearMatch(y) == IF y \in 1900..2099 THEN <<y>> ELSE <<>>

\* summaries holding "y-m-d", "Month d, y", "p1/p2/y", "Month y", "y"
IsoSummary(parts, y, m, d) ==
    [PlainSummary(parts) EXCEPT !.iso = <<[y |-> y, m |-> m, d |-> d]>>,
                                !.year = YearMatch(y)]
MdySummary(parts, name, d, y) ==
    [PlainSummary(parts) EXCEPT !.mdy = <<[name |-> name, d |-> d, y |-> y]>>,
                                !.year = YearMatch(y)]
SlashSummary(parts, p1, p2, y) ==
    [PlainSummary(parts) EXCEPT !.slash = <<[p1 |-> p1, p2 |-> p2, y |-> y]>>,
                                !.year = YearMatch(y)]
MySummary(parts, name, y) ==
    [PlainSummary(parts) EXCEPT !.my = <<[name |-> name, y |-> y]>>,
                                !.year = YearMatch(y)]
YearSummary(parts, y) == [PlainSummary(parts) EXCEPT !.year = YearMatch(y)]

\* `self.arxiv_id in link`
LinkContainsId(link) ==
    /\ link.kind = "arxiv"
    /\ link.yy = 25 /\ link.mm = 2
    /\ Len(link.num) >= 5
    /\ SubSeq(link.num, 1, 5) = <<1, 3, 1, 3, 8>>

\* link.endswith(f"/{self.arxiv_id}")
LinkEndsWithId(link) ==
    /\ link.kind = "arxiv"
    /\ link.yy = 25 /\ link.mm = 2
    /\ link.num = <<1, 3, 1, 3, 8>>

\* int(paper_num[:3])
RECURSIVE DigitsToInt(_)
DigitsToInt(ds) ==
    IF ds = <<>> THEN 0
    ELSE 10 * DigitsToInt(SubSeq(ds, 1, Len(ds) - 1)) + ds[Len(ds)]

MkDate(y, m, d) == y * 10000 + m * 100 + d

\* the date read from an arXiv link: arxiv.org/abs/YYMM.NNNNN
ArxivDate(link) ==
    LET paper_int == DigitsToInt(SubSeq(link.num, 1, Min(3, Len(link.num))))
        day == Min(28, Max(1, (paper_int % 28) + 1))
    IN  MkDate(2000 + link.yy, link.mm, day)

\* month_mapping.get(month_name.lower()[:3], '01'): only the keys of three
\* letters can be hit
MonthNumber(month_name) ==
    LET key == LowerText(SubSeq(month_name, 1, Min(3, Len(month_name))))
    IN  CASE key = <<"j", "a", "n">> -> 1
          [] key = <<"f", "e", "b">> -> 2
          [] key = <<"m", "a", "r">> -> 3
          [] key = <<"a", "p", "r">> -> 4
          [] key = <<"m", "a", "y">> -> 5
          [] key = <<"j", "u", "n">> -> 6
          [] key = <<"j", "u", "l">> -> 7
          [] key = <<"a", "u", "g">> -> 8
          [] key = <<"s", "e", "p">> -> 9
          [] key = <<"o", "c", "t">> -> 10
          [] key = <<"n", "o", "v">> -> 11
          [] key = <<"d", "e", "c">> -> 12
          [] OTHER -> 1

\* result['publication_info']['summary'], when both keys are there
SummaryOf(result) ==
    IF result.publication_info = "object" THEN result.summary ELSE NoSummary

\* A cascade that tries the slash pattern before "Month Day, Year".
ExtractDateMutant(result) ==
    LET summary == SummaryOf(result)
    IN  IF result.link.kind = "arxiv" THEN <<ArxivDate(result.link)>>
        ELSE IF ~summary.present THEN <<>>
        ELSE IF summary.iso # <<>>
        THEN <<MkDate(summary.iso[1].y, summary.iso[1].m, summary.iso[1].d)>>
        ELSE IF summary.slash # <<>>
        THEN <<MkDate(summary.slash[1].y, summary.slash[1].p1,
                      summary.slash[1].p2)>>
        ELSE IF summary.mdy # <<>>
        THEN <<MkDate(summary.mdy[1].y, MonthNumber(summary.mdy[1].name),
                      summary.mdy[1].d)>>
        ELSE IF summary.my # <<>>
        THEN <<MkDate(summary.my[1].y, MonthNumber(summary.my[1].name), 15)>>
        ELSE IF summary.year # <<>>
        THEN <<MkDate(summary.year[1], 1, 1)>>
        ELSE <<>>

\* The date cascade of _parse_paper: <<the date>> of the first heuristic that
\* matches, <<>> when published_date_for_sorting is still None after it
ExtractDate(result) ==
    LET summary == SummaryOf(result)
    IN  IF result.link.kind = "arxiv" THEN <<ArxivDate(result.link)>>
        ELSE IF ~summary.present THEN <<>>
        ELSE IF summary.iso # <<>>
        THEN <<MkDate(summary.iso[1].y, summary.iso[1].m, summary.iso[1].d)>>
        ELSE IF summary.mdy # <<>>
        THEN <<MkDate(summary.mdy[1].y, MonthNumber(summary.mdy[1].name),
                      summary.mdy[1].d)>>
        ELSE IF summary.slash # <<>>
        THEN <<MkDate(summary.slash[1].y, summary.slash[1].p1,
                      summary.slash[1].p2)>>
        ELSE IF summary.my # <<>>
        THEN <<MkDate(summary.my[1].y, MonthNumber(summary.my[1].name), 15)>>
        ELSE IF summary.year # <<>>
        THEN <<MkDate(summary.year[1], 1, 1)>>
        ELSE <<>>

\* A fallback that leaves the display value "Unknown" in the sort key.
ParseDateMutant(result) ==
    LET date == ExtractDate(result)
    IN  IF date = <<>> THEN UnknownDate ELSE date[1]

\* published_date_for_sorting
ParseDate(result) ==
    LET date == ExtractDate(result)
    IN  IF date = <<>> THEN SentinelDate ELSE date[1]

\* published_date: the default fallback overwrites "Unknown" as well
PublishedDate(result) ==
    LET date == ExtractDate(result)
    IN  IF date = <<>> THEN SentinelDate ELSE date[1]

\* ", ".join(names)
RECURSIVE JoinNames(_)
JoinNames(names) ==
    IF names = <<>> THEN <<>>
    ELSE IF Len(names) = 1 THEN names
    ELSE <<Head(names), ", ">> \o JoinNames(Tail(names))

\* authors
ParseAuthors(result) ==
    IF result.publication_info = "object" /\ result.authors.kind # "absent"
    THEN IF result.authors.kind = "objects"
         THEN JoinNames(result.authors.names)
         ELSE <<"Unknown authors">>
    ELSE LET summary == SummaryOf(result)
         IN  IF summary.present /\ Len(summary.parts) >= 2
             THEN <<summary.parts[1]>>
             ELSE <<"Unknown authors">>

\* journal
ParseJournal(result) ==
    LET summary == SummaryOf(result)
    IN  IF summary.present /\ Len(summary.parts) >= 2
        THEN summary.parts[2]
        ELSE "Unknown venue"

\* citations
ParseCitations(result) ==
    IF result.inline_links = "object" /\ result.cited_by = "object"
       /\ result.hasTotal
    THEN result.total ELSE 0

\* _extract_institutions
ExtractInstitutions(result) ==
    IF result.affiliations = <<>> THEN <<"Unknown">>
    ELSE JoinNames(result.affiliations)

\* What makes _parse_paper raise: result.get on a record that is not a JSON
\* object, `'authors' in None`, author.get on an author that is not an
\* object, `'cited_by' in None`, cited_by.get on a value that is not one
ParsePaperRaises(result) ==
    \/ ~result.isDict
    \/ result.publication_info = "null"
    \/ /\ result.publication_info = "object"
       /\ result.authors.kind = "strings"
       /\ result.authors.names # <<>>
    \/ result.inline_links = "null"
    \/ result.inline_links = "object" /\ result.cited_by = "not_object"

ParsePaper(result) ==
    [title |-> IF result.hasTitle THEN result.title ELSE <<"Untitled">>,
     authors |-> ParseAuthors(result),
     journal |-> ParseJournal(result),
     snippet |-> IF result.hasSnippet THEN result.snippet
                 ELSE <<"No snippet available">>,
     link |-> result.link,
     published_date |-> PublishedDate(result),
     published_date_sort |-> ParseDate(result),
     citations |-> ParseCitations(result),
     institutions |-> ExtractInstitutions(result)]

\* the filter of _fetch_with_cites_id: drop the tracked paper itself
KeepCiting(paper) ==
    /\ ~Contains(LowerText(paper.title), TargetId)
    /\ ~LinkContainsId(paper.link)

\* the filter of _fetch_with_fallback_search
KeepFallback(paper) ==
    LET paper_text == LowerText(paper.title \o <<" ">> \o paper.snippet)
    IN  /\ Contains(paper_text, TargetId)
        /\ ~LinkEndsWithId(paper.link)
        /\ Contains(paper_text, "arxiv")

\* An insertion that puts a paper behind those of the same date.
RECURSIVE InsertByDateDescMutant(_, _)
InsertByDateDescMutant(p, s) ==
    IF s = <<>> THEN <<p>>
    ELSE IF p.published_date_sort > Head(s).published_date_sort
         THEN <<p>> \o s
    ELSE <<Head(s)>> \o InsertByDateDescMutant(p, Tail(s))

\* papers.sort(key=lambda p: p.published_date_sort, reverse=True): stable
RECURSIVE InsertByDateDesc(_, _)
InsertByDateDesc(p, s) ==
    IF s = <<>> THEN <<p>>
    ELSE IF p.published_date_sort >= Head(s).published_date_sort
         THEN <<p>> \o s
    ELSE <<Head(s)>> \o InsertByDateDesc(p, Tail(s))

\* A sort that drops the papers without a date.
RECURSIVE SortByDateDescMutant(_)
SortByDateDescMutant(s) ==
    IF s = <<>> THEN <<>>
    ELSE IF Head(s).published_date_sort = SentinelDate
    THEN SortByDateDescMutant(Tail(s))
    ELSE InsertByDateDesc(Head(s), SortByDateDescMutant(Tail(s)))

RECURSIVE SortByDateDesc(_)
SortByDateDesc(s) ==
    IF s = <<>> THEN <<>>
    ELSE InsertByDateDesc(Head(s), SortByDateDesc(Tail(s)))

-----------------------------------------------------------------------------
(* The snapshot document and the file *)

SnapshotEntry(paper) ==
    [title |-> paper.title,
     authors |-> paper.authors,
     journal |-> paper.journal,
     snippet |-> paper.snippet,
     link |-> paper.link,
     published_date |-> paper.published_date,
     citations |-> paper.citations,
     institutions |-> paper.institutions]

\* the dict `data` of save_data
SnapshotData(ps, today) ==
    LET stats == CalculateStats(ps)
    IN  [last_updated |-> today,
         target_paper |-> TargetUrl,
         arxiv_id |-> TargetId,
         total_citations |-> stats.total_citations,
         recent_citations |-> stats.recent_citations,
         avg_citations_per_month |-> stats.avg_citations_per_month,
         h_index |-> stats.h_index,
         timeline |-> GenerateTimeline(ps, today),
         papers |-> [i \in 1..Len(ps) |-> SnapshotEntry(ps[i])]]

\* A fallback document that lost its error field.
FallbackDataMutant(today) ==
    [last_updated |-> today,
     target_paper |-> TargetUrl,
     arxiv_id |-> TargetId,
     total_citations |-> 0,
     recent_citations |-> 0,
     avg_citations_per_month |-> 0,
     h_index |-> 0,
     timeline |-> <<>>,
     papers |-> <<>>]

\* the dict `fallback_data` of create_fallback_data
FallbackData(today) ==
    [last_updated |-> today,
     target_paper |-> TargetUrl,
     arxiv_id |-> TargetId,
     total_citations |-> 0,
     recent_citations |-> 0,
     avg_citations_per_month |-> 0,
     h_index |-> 0,
     timeline |-> <<>>,
     papers |-> <<>>,
     error |-> "Unable to fetch citation data."]

AbsentFile == [state |-> "absent", content |-> <<>>]
PreviousFile == [state |-> "previous", content |-> <<>>]

IoOutcomes == {"ok", "open_fail", "dump_fail"}
IoFailures == {"open_fail", "dump_fail"}

\* with open(filename, 'w') as f: json.dump(doc, f): open() truncates the
\* file, so a failure of json.dump leaves a strict prefix of the document
\* (possibly nothing); a failure of open() itself leaves the file as it was.
WriteFile(old, doc, io) ==
    CASE io = "ok" -> [state |-> "written", content |-> <<doc>>]
      [] io = "open_fail" -> old
      [] io = "dump_fail" -> [state |-> "partial", content |-> <<>>]

-----------------------------------------------------------------------------
(* The inputs of the model *)

\* datetime.now() of the modelled run: 2025-04-01
RunDate == MkDate(2025, 4, 1)

\* a record that has every key, in the expected shape
RecBase ==
    [isDict |-> TRUE, hasTitle |-> TRUE, title |-> <<"c">>,
     hasSnippet |-> TRUE, snippet |-> <<>>,
     link |-> NoLink,
     publication_info |-> "object",
     authors |-> NoAuthors,
     summary |-> NoSummary,
     inline_links |-> "object", cited_by |-> "object",
     hasTotal |-> TRUE, total |-> 0,
     affiliations |-> <<>>]

\* "J Smith - Nature, 2025-03-13 - nature.com"
RecA ==
    [RecBase EXCEPT
        !.title = <<"A", " ", "b">>,
        !.snippet = <<"arXiv", " ", "2502.13138">>,
        !.link = OtherLink,
        !.summary = IsoSummary(<<"J Smith", "Nature, 2025-03-13",
                                 "nature.com">>, 2025, 3, 13),
        !.total = 3,
        !.affiliations = <<"MIT">>]

\* the title of RecA in another case and spacing, another link, and the same
\* date, read from the link: 012 % 28 + 1 = 13
RecA2 ==
    [RecBase EXCEPT
        !.title = <<"a", " ", " ", "b">>,
        !.snippet = <<"arXiv", " ", "2502.13138">>,
        !.link = ArxivLink(25, 3, <<0, 1, 2, 3, 4>>),
        !.authors = [kind |-> "objects", names |-> <<"J Smith", "A Lee">>],
        !.inline_links = "absent", !.cited_by = "absent",
        !.hasTotal = FALSE]

\* no date anywhere
RecNoDate ==
    [RecBase EXCEPT
        !.snippet = <<"cites", " ", "arXiv", " ", "2502.13138">>,
        !.publication_info = "absent",
        !.total = 1]

\* cited_by.total is a string
RecBadTotal ==
    [RecBase EXCEPT
        !.hasTitle = FALSE, !.title = <<>>,
        !.total = NonInt]

\* the tracked paper itself
RecSelf ==
    [RecBase EXCEPT
        !.title = <<"AIDE">>,
        !.snippet = <<"arXiv", " ", "2502.13138">>,
        !.link = ArxivLink(25, 2, <<1, 3, 1, 3, 8>>),
        !.total = 8]

\* an element of organic_results that is not a JSON object
RecNotDict ==
    [RecBase EXCEPT
        !.isDict = FALSE, !.hasTitle = FALSE, !.title = <<>>,
        !.hasSnippet = FALSE,
        !.publication_info = "absent",
        !.inline_links = "absent", !.cited_by = "absent",
        !.hasTotal = FALSE]

RawRecords == {RecA, RecA2, RecNoDate, RecBadTotal, RecSelf, RecNotDict}

\* self._parse_paper(result) for each raw record of the model, computed once
ParsedRecords == [r \in RawRecords |-> ParsePaper(r)]

\* whether the loop body appends the paper of a raw record: _parse_paper did
\* not raise, and the filter of the fetch method lets the paper through
AppendedRecords ==
    [byCitesId \in BOOLEAN |->
        [r \in RawRecords |->
            /\ ~ParsePaperRaises(r)
            /\ IF byCitesId THEN KeepCiting(ParsePaper(r))
               ELSE KeepFallback(ParsePaper(r))]]

\* A page loop that gives up the page at the first record that fails to
\* parse.
RECURSIVE ProcessPageBreakMutant(_, _, _, _)
ProcessPageBreakMutant(ps, organic_results, budget, byCitesId) ==
    IF organic_results = <<>> \/ Len(ps) >= budget THEN ps
    ELSE LET result == Head(organic_results)
             paper == ParsedRecords[result]
             keep == AppendedRecords[byCitesId][result]
         IN  IF ParsePaperRaises(result) THEN ps
             ELSE ProcessPageBreakMutant(IF keep THEN Append(ps, paper) ELSE ps,
                                         Tail(organic_results), budget,
                                         byCitesId)

\* A page loop that does not look at the budget.
RECURSIVE ProcessPageOverrunMutant(_, _, _, _)
ProcessPageOverrunMutant(ps, organic_results, budget, byCitesId) ==
    IF organic_results = <<>> THEN ps
    ELSE LET result == Head(organic_results)
             paper == ParsedRecords[result]
             keep == AppendedRecords[byCitesId][result]
         IN  ProcessPageOverrunMutant(IF keep THEN Append(ps, paper) ELSE ps,
                                      Tail(organic_results), budget,
                                      byCitesId)

\* for result in organic_results: ... (one page)
RECURSIVE ProcessPage(_, _, _, _)
ProcessPage(ps, organic_results, budget, byCitesId) ==
    IF organic_results = <<>> \/ Len(ps) >= budget THEN ps
    ELSE LET result == Head(organic_results)
             paper == ParsedRecords[result]
             keep == AppendedRecords[byCitesId][result]
         IN  ProcessPage(IF keep THEN Append(ps, paper) ELSE ps,
                         Tail(organic_results), budget, byCitesId)

\* whether the loop over one page logs "Failed to parse paper": it reaches a
\* record that makes _parse_paper raise before the budget is used up
RECURSIVE PageWarns(_, _, _, _)
PageWarns(ps, organic_results, budget, byCitesId) ==
    IF organic_results = <<>> \/ Len(ps) >= budget THEN FALSE
    ELSE \/ ParsePaperRaises(Head(organic_results))
         \/ PageWarns(ProcessPage(ps, <<Head(organic_results)>>, budget,
                                  byCitesId),
                      Tail(organic_results), budget, byCitesId)

\* The bodies of a 200 response to a page request
PageBodies ==
    {[kind |-> "object", results |-> r] : r \in SeqsUpTo(RawRecords, MaxPageLen)}
NoResults == <<>>
OtherBodies ==
    {[kind |-> k, results |-> NoResults] :
        k \in {"error_field", "not_object_truthy", "not_object_falsy"}}

\* What one HTTP attempt of _make_request can end in.  The exceptions caught
\* by `except SSLError` and `except RequestException` are retried: a
\* connection or timeout error, the HTTPError of raise_for_status, and, with
\* requests >= 2.27, the requests.exceptions.JSONDecodeError that
\* response.json() raises on a malformed body ("invalid_json").  Older
\* versions raise a plain json.JSONDecodeError ("malformed_json"), which
\* reaches the last except clause.
TransientErrors == {"ssl_error", "request_error", "http_error", "invalid_json"}
AttemptOutcomes ==
    {[kind |-> k, body |-> [kind |-> "none", results |-> NoResults]] :
        k \in TransientErrors \cup {"malformed_json"}}
    \cup {[kind |-> "ok", body |-> b] : b \in PageBodies \cup OtherBodies}

-----------------------------------------------------------------------------
(* One run of main() *)

\* the cache file, as a run may find it: none, one that does not parse or has
\* no timestamp, one written 6 days ago, one written 8 days ago
CacheStates == {"absent", "corrupted", "age_6_days", "age_8_days"}

Init ==
    /\ pc = "main"
    /\ apiKey \in BOOLEAN
    /\ now = RunDate
    /\ max_results \in 1..MaxBudget
    /\ max_retries = MaxRetries
    /\ cache = "absent"
    /\ pages = <<>>
    /\ raw = <<>>
    /\ parsed = <<>>
    /\ cites_id = ""
    /\ papers = <<>>
    /\ received = <<>>
    /\ start = 0
    /\ offsets = <<>>
    /\ attempt = 0
    /\ requests = 0
    /\ lastOutcome = "none"
    /\ slept = 0
    /\ fetchResult = "none"
    /\ data = <<>>
    /\ lastIo = "none"
    /\ file \in {AbsentFile, PreviousFile}
    /\ fileBefore = file
    /\ log = {}

\* create_fallback_data, with the outcome io of writing the file
CreateFallbackData(io) ==
    /\ data' = <<FallbackData(now)>>
    /\ file' = WriteFile(file, FallbackData(now), io)
    /\ lastIo' = io

\* main() without SERPAPI_KEY
MainNoKey ==
    /\ pc = "main"
    /\ ~apiKey
    /\ \E io \in IoOutcomes :
        /\ CreateFallbackData(io)
        /\ log' = log \cup {"SERPAPI_KEY not found",
                            IF io = "ok" THEN "Fallback data saved"
                            ELSE "Failed to save fallback data"}
    /\ pc' = "done"
    /\ UNCHANGED <<inputs, parsed, cites_id, papers, received, start,
                   offsets, attempt, requests, lastOutcome, slept,
                   fetchResult>>

\* main() with a key, up to the first page request:
\* fetch_citations calls _get_paper_cites_id, one request inside try/except
GetPaperCitesId ==
    /\ pc = "main"
    /\ apiKey
    /\ \E outcome \in {"found", "not_found", "failed"} :
        /\ cites_id' = IF outcome = "found" THEN "cites" ELSE ""
        /\ log' = IF outcome = "failed"
                  THEN log \cup {"Could not get cites_id"} ELSE log
    /\ requests' = requests + 1
    /\ papers' = <<>>
    /\ received' = <<>>
    /\ start' = 0
    /\ attempt' = 0
    /\ pc' = "request"
    /\ UNCHANGED <<inputs, parsed, offsets, lastOutcome, slept, fetchResult,
                   data, lastIo, file>>

\* the fetch loop ends (break, or its condition fails): fetch_citations
\* sorts what was collected and returns it to main
FetchReturns(ps) ==
    /\ papers' = SortByDateDesc(ps)
    /\ received' = ps
    /\ fetchResult' = "returned"
    /\ pc' = "save"

\* _make_request gave up (returned None), or the page ends the loop
PageEndsLoop(body) ==
    \/ body.kind \in {"error_field", "not_object_falsy"}
    \/ body.kind = "object" /\ body.results = <<>>

\* A backoff that multiplies where the code raises to a power.
BackoffMutant(k) == 2 * k

\* time.sleep(2 ** attempt)
Backoff(k) == 2 ^ k

\* An offset that is never advanced.
NextStartMutant(offset) == offset

\* start += page_size
NextStart(offset) == offset + page_size

\* An iteration that goes on to the next page without the pause.
EndOfIterationMutant ==
    /\ start' = NextStart(start)
    /\ slept' = 0

\* the end of an iteration of the fetch loop that did not break:
\* start += page_size; time.sleep(1)
EndOfIteration ==
    /\ start' = NextStart(start)
    /\ slept' = RateLimitDelay

\* start += page_size past the last page the model tells apart: the offsets
\* from MaxPages * page_size on are folded into two, taken in turn
FoldedStart(offset) ==
    IF offset = MaxPages * page_size THEN NextStart(offset)
    ELSE MaxPages * page_size

\* what lastOutcome keeps of the outcome of an HTTP attempt
OutcomeClass(outcome) ==
    IF outcome.kind = "ok"
    THEN IF outcome.body.kind = "object" /\ outcome.body.results = <<>>
         THEN "no_results"
         ELSE outcome.body.kind
    ELSE IF outcome.kind \in {"malformed_json", "invalid_json"}
    THEN "malformed_json"
    ELSE "error"

\* One HTTP attempt of _make_request inside the fetch loop, and what the
\* loop does with its result up to the next request.  With advance = FALSE
\* the iterations past the last page the model tells apart are taken: the
\* list of offsets and the count of requests are left as they are and the
\* offset is folded, none of which the loop reads.
AttemptWith(advance) ==
    /\ pc = "request"
    /\ \E outcome \in AttemptOutcomes :
        /\ LET retried == outcome.kind \in TransientErrors
           IN  IF retried /\ attempt < max_retries - 1
               THEN \* time.sleep(2 ** attempt); continue
                    /\ attempt' = attempt + 1
                    /\ slept' = Backoff(attempt)
                    /\ UNCHANGED <<papers, received, start, fetchResult, pc>>
               ELSE IF outcome.kind # "ok" \/ PageEndsLoop(outcome.body)
               THEN \* return None / break
                    /\ FetchReturns(papers)
                    /\ slept' = 0
                    /\ UNCHANGED <<start, attempt>>
               ELSE IF outcome.body.kind = "not_object_truthy"
               THEN \* 'error' in data / data.get raise out of fetch_citations
                    /\ fetchResult' = "raised"
                    /\ pc' = "except"
                    /\ slept' = 0
                    /\ UNCHANGED <<papers, received, start, attempt>>
               ELSE LET ps == ProcessPage(papers, outcome.body.results,
                                          max_results, cites_id # "")
                    IN  /\ IF advance THEN EndOfIteration
                           ELSE /\ start' = FoldedStart(start)
                                /\ slept' = RateLimitDelay
                        /\ attempt' = 0
                        /\ IF Len(ps) < max_results
                           THEN /\ papers' = ps
                                /\ received' = ps
                                /\ UNCHANGED <<fetchResult, pc>>
                           ELSE FetchReturns(ps)
        /\ lastOutcome' = OutcomeClass(outcome)
    /\ offsets' = IF advance /\ attempt = 0 THEN Append(offsets, start)
                  ELSE offsets
    /\ requests' = IF advance THEN requests + 1 ELSE requests
    /\ UNCHANGED <<inputs, parsed, cites_id, data, lastIo, file, log>>

\* an HTTP attempt for one of the first MaxPages pages
Attempt ==
    /\ start < MaxPages * page_size
    /\ AttemptWith(TRUE)

\* an HTTP attempt for a later page
AttemptBeyond ==
    /\ start >= MaxPages * page_size
    /\ AttemptWith(FALSE)

\* save_data(papers), and main()'s last line when it returns
SaveData ==
    /\ pc = "save"
    /\ IF CalculateStatsRaises(papers)
       THEN /\ pc' = "except"
            /\ UNCHANGED <<data, lastIo, file, log>>
       ELSE /\ data' = <<SnapshotData(papers, now)>>
            /\ \E io \in IoOutcomes :
                /\ file' = WriteFile(file, SnapshotData(papers, now), io)
                /\ lastIo' = io
                /\ log' = log \cup {IF io = "ok" THEN "Data saved"
                                    ELSE "Failed to save data",
                                    "Citation tracking completed successfully!"}
            /\ pc' = "done"
    /\ UNCHANGED <<inputs, parsed, cites_id, papers, received, start,
                   offsets, attempt, requests, lastOutcome, slept,
                   fetchResult>>

\* The handler that only logs: no fallback snapshot is written.
MainExceptMutant ==
    /\ pc = "except"
    /\ log' = log \cup {"Error in main execution"}
    /\ pc' = "done"
    /\ UNCHANGED <<inputs, parsed, cites_id, papers, received, start,
                   offsets, attempt, requests, lastOutcome, slept,
                   fetchResult, data, lastIo, file>>

\* main(): except Exception as e: ... tracker.create_fallback_data()
MainExcept ==
    /\ pc = "except"
    /\ \E io \in IoOutcomes :
        /\ CreateFallbackData(io)
        /\ log' = log \cup {"Error in main execution",
                            IF io = "ok" THEN "Fallback data saved"
                            ELSE "Failed to save fallback data"}
    /\ pc' = "done"
    /\ UNCHANGED <<inputs, parsed, cites_id, papers, received, start,
                   offsets, attempt, requests, lastOutcome, slept,
                   fetchResult>>

Next == MainNoKey \/ GetPaperCitesId \/ Attempt \/ SaveData \/ MainExcept

Spec == Init /\ [][Next]_vars

-----------------------------------------------------------------------------
(* What the claims speak of *)

\* a fallback snapshot: error set, every statistic 0, no timeline, no papers
IsFallbackDoc(d) ==
    /\ "error" \in DOMAIN d
    /\ d.total_citations = 0
    /\ d.recent_citations = 0
    /\ d.avg_citations_per_month = 0
    /\ d.h_index = 0
    /\ d.timeline = <<>>
    /\ d.papers = <<>>

FileHoldsFallback ==
    /\ file.state = "written"
    /\ IsFallbackDoc(file.content[1])

\* an exception left fetch_citations or save_data and reached main()
ExceptionReachedMain ==
    \/ fetchResult = "raised"
    \/ fetchResult = "returned" /\ CalculateStatsRaises(papers)

\* a title lowercased, with every run of blanks collapsed to one blank
RECURSIVE CollapseBlanks(_)
CollapseBlanks(text) ==
    IF Len(text) < 2 THEN text
    ELSE IF text[1] = " " /\ text[2] = " " THEN CollapseBlanks(Tail(text))
    ELSE <<text[1]>> \o CollapseBlanks(Tail(text))

NormalizedTitle(title) == CollapseBlanks(LowerText(title))

-----------------------------------------------------------------------------
(* C1: code_bug *)

\* C1: whatever the HTTP outcomes, no exception leaves the source client:
\* fetch_citations returns a list (empty when the source gave nothing).
C1_SourceClientNeverRaises ==
    /\ fetchResult # "raised"
    /\ pc \in {"save", "except", "done"} /\ apiKey => fetchResult = "returned"

-----------------------------------------------------------------------------
(* C2: corrected *)

\* C2 as stated: a run without API key issues no request and leaves a
\* snapshot file with error set, zero statistics and empty lists.
C2_NoKeyAlwaysWritesFallback ==
    pc = "done" /\ ~apiKey =>
        /\ requests = 0
        /\ FileHoldsFallback

\* C2 as amended: a run without API key issues no request, builds the
\* fallback document and returns; the file holds that document (error set,
\* statistics 0, lists empty) unless writing it failed, and then the failure
\* is logged.
C2_NoKeyFallback ==
    /\ pc \in {"main", "request", "save", "except", "done"}
    /\ pc = "done" /\ ~apiKey =>
        /\ requests = 0
        /\ data # <<>> /\ IsFallbackDoc(data[1])
        /\ IF lastIo = "ok" THEN FileHoldsFallback
           ELSE /\ lastIo \in IoFailures
                /\ "Failed to save fallback data" \in log

C2_Witness == pc = "done" /\ ~apiKey /\ requests = 0 /\ FileHoldsFallback

-----------------------------------------------------------------------------
(* C3: corrected *)

-----------------------------------------------------------------------------
(* C4: code_bug *)

\* C4: when writing the snapshot fails, the file keeps the content it had
\* before the call.
C4_FailedWriteLeavesFile ==
    lastIo \in IoFailures => file = fileBefore

-----------------------------------------------------------------------------
(* C5: code_bug *)

\* C5: the papers returned by fetch_citations, and those of the snapshot
\* written from them, hold no two papers with the same normalized title.
C5_NoDuplicateTitles ==
    fetchResult = "returned" =>
        \A i, j \in 1..Len(papers) :
            i < j => NormalizedTitle(papers[i].title)
                        # NormalizedTitle(papers[j].title)

-----------------------------------------------------------------------------
(* save_data applied to bounded paper lists *)

CiteVals == {0, 1, 3, 4, 5, 8, 10}
FewCiteVals == {0, 3}
StatDates ==
    {SentinelDate, MkDate(2025, 1, 15), MkDate(2025, 3, 20), MkDate(2025, 3, 25)}

MkPaper(c, d) ==
    [title |-> <<"c">>, authors |-> <<"Unknown authors">>,
     journal |-> "Unknown venue", snippet |-> <<>>, link |-> NoLink,
     published_date |-> d, published_date_sort |-> d, citations |-> c,
     institutions |-> <<"Unknown">>]

\* lists of up to MaxPapers papers of any citation counts, and lists of up to
\* MaxDated papers of any dates and citation counts
StatsInputs ==
    {[i \in 1..Len(cs) |-> MkPaper(cs[i], MkDate(2025, 3, 20))] :
        cs \in SeqsUpTo(CiteVals, MaxPapers)}
    \cup SeqsUpTo({MkPaper(c, d) : c \in FewCiteVals, d \in StatDates},
                  MaxDated)

InitStats ==
    /\ pc = "save"
    /\ apiKey = TRUE
    /\ now = RunDate
    /\ max_results = MaxBudget
    /\ max_retries = MaxRetries
    /\ cache = "absent"
    /\ pages = <<>>
    /\ raw = <<>>
    /\ parsed = <<>>
    /\ cites_id = ""
    /\ papers \in StatsInputs
    /\ received = papers
    /\ start = 0
    /\ offsets = <<>>
    /\ attempt = 0
    /\ requests = 0
    /\ lastOutcome = "none"
    /\ slept = 0
    /\ fetchResult = "none"
    /\ data = <<>>
    /\ lastIo = "none"
    /\ file = AbsentFile
    /\ fileBefore = file
    /\ log = {}

NextStats == SaveData

SpecStats == InitStats /\ [][NextStats]_vars

Citations(ps) == [i \in 1..Len(ps) |-> ps[i].citations]

DateValid(p) == p.published_date_sort # SentinelDate

ValidIndices(ps) == {i \in 1..Len(ps) : DateValid(ps[i])}

\* the statistics save_data computed
Built == pc = "done" /\ data # <<>>

-----------------------------------------------------------------------------
(* C6: confirmed *)

\* the largest h such that at least h papers have h or more citations
LargestH(ps) ==
    LET ok == {h \in 0..Len(ps) :
                 Cardinality({i \in 1..Len(ps) : ps[i].citations >= h}) >= h}
    IN  CHOOSE h \in ok : \A g \in ok : g <= h

\* C6: the h_index of the statistics is the largest h such that at least h
\* papers have a citation count >= h; for the counts 10, 8, 5, 4, 3 it is 4.
C6_HIndex ==
    Built =>
        /\ data[1].h_index = LargestH(papers)
        /\ Citations(papers) = <<10, 8, 5, 4, 3>> => data[1].h_index = 4

C6_Witness ==
    /\ Built
    /\ Citations(papers) = <<10, 8, 5, 4, 3>>
    /\ data[1].h_index = 4

-----------------------------------------------------------------------------
(* C7: code_bug *)

DaysBeforeMonth(m) ==
    CASE m = 1 -> 0 [] m = 2 -> 31 [] m = 3 -> 59 [] m = 4 -> 90
      [] m = 5 -> 120 [] m = 6 -> 151 [] m = 7 -> 181 [] m = 8 -> 212
      [] m = 9 -> 243 [] m = 10 -> 273 [] m = 11 -> 304 [] OTHER -> 334

IsLeap(y) == (y % 4 = 0 /\ y % 100 # 0) \/ y % 400 = 0

\* the number of the day of a date yyyymmdd, counted from a fixed origin
DayNumber(date) ==
    LET y == date \div 10000
        m == (date \div 100) % 100
        d == date % 100
        py == y - 1
    IN  365 * py + (py \div 4) - (py \div 100) + (py \div 400)
        + DaysBeforeMonth(m) + (IF m > 2 /\ IsLeap(y) THEN 1 ELSE 0) + d

WithinLast30Days(p, today) ==
    /\ DateValid(p)
    /\ DayNumber(p.published_date_sort) <= DayNumber(today)
    /\ DayNumber(today) - DayNumber(p.published_date_sort) <= 30

\* C7: recent_citations is the number of papers dated within the 30 days
\* before the run; papers with the sentinel date are not counted.
C7_RecentCount ==
    Built =>
        data[1].recent_citations =
            Cardinality({i \in 1..Len(papers) :
                            WithinLast30Days(papers[i], now)})

-----------------------------------------------------------------------------
(* C8: code_bug *)

MonthIndex(date) == (date \div 10000) * 12 + ((date \div 100) % 100)

\* date-valid papers / inclusive months from the earliest to the latest of
\* them, rounded to 2 decimals, in hundredths
MonthlyAverage(ps) ==
    LET valid == {ps[i].published_date_sort : i \in ValidIndices(ps)}
        first == CHOOSE d \in valid : \A e \in valid : d <= e
        last == CHOOSE d \in valid : \A e \in valid : e <= d
        span == Max(MonthIndex(last) - MonthIndex(first) + 1, 1)
    IN  IF valid = {} THEN 0
        ELSE RoundHundredths(Cardinality(ValidIndices(ps)), span, 2)

\* C8: avg_citations_per_month is the number of date-valid papers divided by
\* the inclusive number of months they span, rounded to 2 decimals.
C8_MonthlyAverage ==
    Built => data[1].avg_citations_per_month = MonthlyAverage(papers)

-----------------------------------------------------------------------------
(* C9: corrected *)

Ascending(timeline) ==
    \A i, j \in 1..Len(timeline) :
        i < j => timeline[i].date < timeline[j].date

ValidUpTo(ps, d) ==
    Cardinality({i \in ValidIndices(ps) : ps[i].published_date_sort <= d})

RunningTotals(ps, timeline) ==
    \A k \in 1..Len(timeline) :
        timeline[k].citations = ValidUpTo(ps, timeline[k].date)

-----------------------------------------------------------------------------
(* C10: confirmed *)

\* C10: for an empty paper list save_data computes total 0, h_index 0,
\* recent count 0, monthly average 0 and an empty timeline, and raises
\* nothing.
C10_EmptyInput ==
    papers = <<>> =>
        /\ pc \in {"save", "done"}
        /\ pc = "done" =>
            /\ data # <<>>
            /\ data[1].total_citations = 0
            /\ data[1].h_index = 0
            /\ data[1].recent_citations = 0
            /\ data[1].avg_citations_per_month = 0
            /\ data[1].timeline = <<>>

C10_Witness == Built /\ papers = <<>> /\ data[1].timeline = <<>>

-----------------------------------------------------------------------------
(* _parse_paper applied to bounded raw records *)

AuthorShapes ==
    {NoAuthors,
     [kind |-> "objects", names |-> <<"J Smith", "A Lee">>],
     [kind |-> "objects", names |-> <<"J Smith", "">>],
     [kind |-> "strings", names |-> <<"J Smith">>],
     [kind |-> "not_list", names |-> <<>>]}

ShapeSummaries ==
    {NoSummary,
     PlainSummary(<<"J Smith">>),
     IsoSummary(<<"J Smith", "Nature, 2025-03-10", "nature.com">>,
                2025, 3, 10)}

\* records of every shape; keys under a missing parent are left out
ShapeInputs ==
    {r \in {[RecBase EXCEPT
                !.hasTitle = t, !.title = IF t THEN <<"c">> ELSE <<>>,
                !.publication_info = pi, !.authors = a, !.summary = sm,
                !.link = l,
                !.inline_links = il, !.cited_by = cb,
                !.hasTotal = ht, !.total = IF ht THEN 3 ELSE 0,
                !.affiliations = af] :
                t \in BOOLEAN, pi \in {"absent", "object", "null"},
                a \in AuthorShapes, sm \in ShapeSummaries,
                l \in {NoLink, OtherLink, ArxivLink(25, 3, <<0, 1, 2, 3, 4>>)},
                il \in {"absent", "object", "null"},
                cb \in {"absent", "object", "not_object"},
                ht \in BOOLEAN, af \in {<<>>, <<"MIT">>}} :
        /\ r.publication_info # "object" =>
                r.authors = NoAuthors /\ r.summary = NoSummary
        /\ r.inline_links # "object" => r.cited_by = "absent"
        /\ r.cited_by # "object" => ~r.hasTotal}

DateYears == {2023, 2024}
DateMonths == {0, 1, 2, 4, 12, 13}
DateDays == {0, 1, 28, 29, 30, 31, 32}
MonthWords ==
    {<<"M", "a", "r", "c", "h">>, <<"F", "e", "b">>, <<"d", "e", "c">>,
     <<"N", "a", "t", "u", "r", "e">>}
DateParts == <<"J Smith", "Nature", "nature.com">>

DateSummaries ==
    {NoSummary, PlainSummary(DateParts)}
    \cup {IsoSummary(DateParts, y, m, d) :
            y \in DateYears, m \in DateMonths, d \in DateDays}
    \cup {MdySummary(DateParts, w, d, y) :
            w \in MonthWords, d \in DateDays, y \in DateYears}
    \cup {SlashSummary(DateParts, m, d, y) :
            m \in DateMonths \cup {25}, d \in DateDays, y \in DateYears}
    \cup {MySummary(DateParts, w, y) : w \in MonthWords, y \in DateYears}
    \cup {YearSummary(DateParts, y) : y \in DateYears}

\* summaries in which several patterns match, each on a date of its own:
\* "2022 ... 2024-04-12 ... Feb 28, 2023 ... 12/1/2023 ... March 2024" with
\* any of the four dated pieces left out; the year pattern finds "2022"
MixedSummaries ==
    {[PlainSummary(DateParts) EXCEPT
        !.iso = IF i THEN <<[y |-> 2024, m |-> 4, d |-> 12]>> ELSE <<>>,
        !.mdy = IF md THEN <<[name |-> <<"F", "e", "b">>, d |-> 28,
                              y |-> 2023]>>
                ELSE <<>>,
        !.slash = IF sl THEN <<[p1 |-> 12, p2 |-> 1, y |-> 2023]>> ELSE <<>>,
        !.my = IF my THEN <<[name |-> <<"M", "a", "r", "c", "h">>,
                             y |-> 2024]>>
               ELSE <<>>,
        !.year = YearMatch(2022)] :
        i \in BOOLEAN, md \in BOOLEAN, sl \in BOOLEAN, my \in BOOLEAN}

DateLinks ==
    {NoLink, OtherLink}
    \cup {ArxivLink(yy, mm, num) :
            yy \in {7, 25}, mm \in {0, 1, 12, 13},
            num \in {<<0, 0, 0, 1>>, <<0, 1, 2, 3, 4>>, <<2, 7, 9, 9, 9>>}}

\* records of the shape of RecBase, with every link and summary
DateInputs ==
    {[RecBase EXCEPT !.link = l, !.summary = sm] :
        l \in DateLinks, sm \in DateSummaries \cup MixedSummaries}

ParseInputs == ShapeInputs \cup DateInputs

InitParse ==
    /\ pc = "parse"
    /\ apiKey = TRUE
    /\ now = RunDate
    /\ max_results = MaxBudget
    /\ max_retries = MaxRetries
    /\ cache = "absent"
    /\ pages = <<>>
    /\ raw \in ParseInputs
    /\ parsed = <<>>
    /\ cites_id = ""
    /\ papers = <<>>
    /\ received = <<>>
    /\ start = 0
    /\ offsets = <<>>
    /\ attempt = 0
    /\ requests = 0
    /\ lastOutcome = "none"
    /\ slept = 0
    /\ fetchResult = "none"
    /\ data = <<>>
    /\ lastIo = "none"
    /\ file = AbsentFile
    /\ fileBefore = file
    /\ log = {}

\* one call self._parse_paper(raw): it returns a Paper or raises
ParsePaperCall ==
    /\ pc = "parse"
    /\ IF ParsePaperRaises(raw)
       THEN pc' = "parse_raised" /\ parsed' = <<>>
       ELSE pc' = "parsed" /\ parsed' = <<ParsePaper(raw)>>
    /\ UNCHANGED <<inputs, cites_id, papers, received, start, offsets,
                   attempt, requests, lastOutcome, slept, fetchResult, data,
                   lastIo, file, log>>

NextParse == ParsePaperCall

SpecParse == InitParse /\ [][NextParse]_vars

-----------------------------------------------------------------------------
(* C11: code_bug *)

\* the record names no author: no publication_info, or neither an authors
\* list nor a summary with an author part in it
NoAuthorInfo(r) ==
    \/ r.publication_info = "absent"
    \/ /\ r.authors.kind \in {"absent", "not_list"}
       /\ r.authors.kind = "absent" => Len(r.summary.parts) < 2

NoVenueInfo(r) ==
    r.publication_info = "absent" \/ Len(r.summary.parts) < 2

NoCitationCount(r) ==
    r.inline_links = "absent" \/ r.cited_by = "absent" \/ ~r.hasTotal

\* C11: for every raw record, whatever fields are missing or have an
\* unexpected shape, _parse_paper returns a Paper and never raises, and each
\* missing field has its default: title 'Untitled', authors 'Unknown
\* authors', venue 'Unknown venue', citation count 0, institutions 'Unknown'.
C11_ParseNeverFails ==
    /\ pc # "parse_raised"
    /\ pc = "parsed" =>
        /\ parsed # <<>>
        /\ ~raw.hasTitle => parsed[1].title = <<"Untitled">>
        /\ NoAuthorInfo(raw) => parsed[1].authors = <<"Unknown authors">>
        /\ NoVenueInfo(raw) => parsed[1].journal = "Unknown venue"
        /\ NoCitationCount(raw) => parsed[1].citations = 0
        /\ raw.affiliations = <<>> => parsed[1].institutions = <<"Unknown">>

-----------------------------------------------------------------------------
(* C12: code_bug *)

DaysInMonth(y, m) ==
    CASE m = 2 -> IF IsLeap(y) THEN 29 ELSE 28
      [] m \in {4, 6, 9, 11} -> 30
      [] OTHER -> 31

\* the date yyyymmdd names a day of the calendar
ValidCalendarDate(date) ==
    LET y == date \div 10000
        m == (date \div 100) % 100
        d == date % 100
    IN  m \in 1..12 /\ d \in 1..DaysInMonth(y, m)

\* C12: the published_date_sort of every Paper _parse_paper returns is a
\* valid calendar date; digits that form no valid date (month 13, a slash
\* date whose first part exceeds 12) give the sentinel 1900-01-01 instead.
C12_SortDateIsValid ==
    pc = "parsed" => ValidCalendarDate(parsed[1].published_date_sort)

-----------------------------------------------------------------------------
(* C13: confirmed *)

\* no arXiv identifier in the link, and no summary or one in which none of
\* the date patterns matches
NoDateInfo(r) ==
    /\ r.link.kind # "arxiv"
    /\ \/ r.publication_info # "object"
       \/ ~r.summary.present
       \/ /\ r.summary.iso = <<>> /\ r.summary.mdy = <<>>
          /\ r.summary.slash = <<>> /\ r.summary.my = <<>>
          /\ r.summary.year = <<>>

\* C13: for every raw record that carries no date information, the Paper
\* _parse_paper returns has published_date_sort = "1900-01-01".
C13_NoDateGivesSentinel ==
    pc = "parsed" /\ NoDateInfo(raw) =>
        parsed[1].published_date_sort = SentinelDate

\* a record with a link and a summary, neither of which holds a date
C13_Witness ==
    /\ pc = "parsed"
    /\ raw.link.kind = "other"
    /\ raw.summary.present
    /\ NoDateInfo(raw)
    /\ parsed[1].published_date_sort = SentinelDate

-----------------------------------------------------------------------------
(* C14: code_bug *)

\* C14: a paper whose date is unknown (its sort key is the sentinel) shows
\* "Unknown" as published_date, never 1900-01-01, in the Paper and in its
\* entry of the snapshot.
C14_SentinelNeverDisplayed ==
    /\ \A i \in 1..Len(papers) :
        papers[i].published_date_sort = SentinelDate =>
            /\ papers[i].published_date = UnknownDate
            /\ papers[i].published_date # SentinelDate
    /\ Built =>
        \A i \in 1..Len(data[1].papers) :
            papers[i].published_date_sort = SentinelDate =>
                /\ data[1].papers[i].published_date = UnknownDate
                /\ data[1].papers[i].published_date # SentinelDate

-----------------------------------------------------------------------------
(* C15: confirmed *)

SortKeys(ps) == {ps[i].published_date_sort : i \in 1..Len(ps)}

WithKey(ps, d) == SelectSeq(ps, LAMBDA p : p.published_date_sort = d)

\* the papers of the latest date in the order they have in ps, then those of
\* the next date, and so on
RECURSIVE LatestFirst(_, _)
LatestFirst(ps, keys) ==
    IF keys = {} THEN <<>>
    ELSE LET latest == CHOOSE d \in keys : \A e \in keys : e <= d
         IN  WithKey(ps, latest) \o LatestFirst(ps, keys \ {latest})

\* the snapshot written from the returned list
SnapshotOfPapers == Built /\ "error" \notin DOMAIN data[1]

\* C15: the list fetch_citations returns is sorted by published_date_sort
\* descending, papers of equal published_date_sort keep the order in which
\* they were received, and the snapshot lists the papers in that order.
C15_SortedLatestFirst ==
    /\ fetchResult = "returned" =>
        /\ papers = LatestFirst(received, SortKeys(received))
        /\ \A i, j \in 1..Len(papers) :
            i < j => papers[i].published_date_sort
                        >= papers[j].published_date_sort
    /\ SnapshotOfPapers =>
        /\ Len(data[1].papers) = Len(papers)
        /\ \A i \in 1..Len(papers) :
            /\ data[1].papers[i].title = papers[i].title
            /\ data[1].papers[i].link = papers[i].link
            /\ data[1].papers[i].published_date = papers[i].published_date

\* two different papers of one date, returned and written in the order
\* they were received
C15_Witness ==
    /\ SnapshotOfPapers
    /\ fetchResult = "returned"
    /\ Len(papers) = 2
    /\ papers[1] # papers[2]
    /\ papers[1].published_date_sort = papers[2].published_date_sort
    /\ papers = received
    /\ data[1].papers[1].link = papers[1].link

-----------------------------------------------------------------------------
(* C16: code_bug *)

SnapshotFields ==
    {"last_updated", "target_paper", "arxiv_id", "total_citations",
     "h_index", "recent_citations", "avg_citations_per_month", "timeline",
     "papers"}

EntryFields ==
    {"title", "authors", "journal", "snippet", "link", "published_date",
     "published_date_sort", "citations", "institutions"}

\* C16: every snapshot save_data writes has the fields last_updated,
\* target_paper, arxiv_id, total_citations, h_index, recent_citations,
\* avg_citations_per_month, timeline and papers, and every entry of papers
\* has title, authors, journal, snippet, link, published_date,
\* published_date_sort, citations and institutions.
C16_SnapshotShape ==
    SnapshotOfPapers =>
        /\ SnapshotFields \subseteq DOMAIN data[1]
        /\ \A i \in 1..Len(data[1].papers) :
            EntryFields \subseteq DOMAIN data[1].papers[i]

-----------------------------------------------------------------------------
(* One run of main() that finds a cache file on disk *)

InitCache ==
    /\ pc = "main"
    /\ apiKey \in BOOLEAN
    /\ now = RunDate
    /\ max_results = 1
    /\ max_retries = MaxRetries
    /\ cache \in CacheStates
    /\ pages = <<>>
    /\ raw = <<>>
    /\ parsed = <<>>
    /\ cites_id = ""
    /\ papers = <<>>
    /\ received = <<>>
    /\ start = 0
    /\ offsets = <<>>
    /\ attempt = 0
    /\ requests = 0
    /\ lastOutcome = "none"
    /\ slept = 0
    /\ fetchResult = "none"
    /\ data = <<>>
    /\ lastIo = "none"
    /\ file = AbsentFile
    /\ fileBefore = file
    /\ log = {}

SpecCache == InitCache /\ [][Next]_vars

-----------------------------------------------------------------------------
(* C17: code_bug *)

\* C17: with a 7-day window, a run that finds a cache written 6 days ago
\* makes no request to the search API, a run that finds one written 8 days
\* ago makes the requests, and a missing or corrupted cache is treated as no
\* cache: the run makes the requests and is not aborted.
C17_CacheWindow ==
    /\ cache = "age_6_days" => requests = 0
    /\ apiKey /\ cache \in {"age_8_days", "absent", "corrupted"} =>
        /\ pc # "main" => requests > 0
        /\ pc = "done" => data # <<>>

-----------------------------------------------------------------------------
(* The fetch loop with any max_retries *)

InitRequest ==
    /\ pc = "request"
    /\ apiKey = TRUE
    /\ now = RunDate
    /\ max_results = 1
    /\ max_retries \in 1..MaxTries
    /\ cache = "absent"
    /\ pages = <<>>
    /\ raw = <<>>
    /\ parsed = <<>>
    /\ cites_id \in {"", "cites"}
    /\ papers = <<>>
    /\ received = <<>>
    /\ start = 0
    /\ offsets = <<>>
    /\ attempt = 0
    /\ requests = 1
    /\ lastOutcome = "none"
    /\ slept = 0
    /\ fetchResult = "none"
    /\ data = <<>>
    /\ lastIo = "none"
    /\ file = AbsentFile
    /\ fileBefore = file
    /\ log = {}

NextRequest == Attempt

SpecRequest == InitRequest /\ [][NextRequest]_vars

\* the step is one HTTP attempt of _make_request
HttpAttempt == pc = "request" /\ requests' = requests + 1

\* the attempt of the step failed
AttemptFailed == lastOutcome' \in {"error", "malformed_json"}

\* the step is followed by another attempt of the same call
AttemptRepeated == pc' = "request" /\ attempt' = attempt + 1

-----------------------------------------------------------------------------
(* C18: confirmed *)

RECURSIVE BackoffSeconds(_)
BackoffSeconds(k) == IF k <= 1 THEN 1 ELSE 2 * BackoffSeconds(k - 1)

\* C18: one call of _make_request with max_retries = n makes at most n HTTP
\* attempts; a successful attempt is the last one of the call; an attempt
\* that is repeated is a failed attempt k < n and is followed by a wait of
\* 2^(k-1) seconds; a network or SSL failure of attempt k < n is repeated;
\* after the n-th failed attempt the call returns no data without waiting.
C18_RetryPolicy ==
    [][HttpAttempt =>
        LET k == attempt + 1
        IN  /\ k <= max_retries
            /\ ~AttemptFailed => ~AttemptRepeated
            /\ AttemptRepeated =>
                /\ AttemptFailed
                /\ k < max_retries
                /\ slept' = BackoffSeconds(k)
            /\ lastOutcome' = "error" /\ k < max_retries => AttemptRepeated
            /\ AttemptFailed /\ k = max_retries =>
                /\ slept' = 0
                /\ pc' = "save"
                /\ received' = received]_vars

\* the third attempt of a call with max_retries = 4 failed, and was followed
\* by a wait of 4 seconds
C18_Witness ==
    /\ max_retries = 4
    /\ pc = "request"
    /\ attempt = 3
    /\ lastOutcome = "error"
    /\ slept = 4

-----------------------------------------------------------------------------
(* C19: code_bug *)

\* C19: an attempt that ends in a non-transient error, in particular a
\* response whose body is malformed JSON, ends the request at once: no
\* wait, no further attempt, no data.
C19_MalformedJsonNotRetried ==
    [][HttpAttempt /\ lastOutcome' = "malformed_json" =>
        /\ ~AttemptRepeated
        /\ slept' = 0
        /\ pc' = "save"
        /\ received' = received]_vars

-----------------------------------------------------------------------------
(* C20: confirmed *)

\* the page requests so far were issued at 0, page_size, 2 * page_size, ...
OffsetsInOrder ==
    \A i \in 1..Len(offsets) : offsets[i] = (i - 1) * page_size

\* the page of the step had no results or an error field, or the request
\* failed and was not repeated, or the budget is reached
LastPage ==
    \/ lastOutcome' \in {"no_results", "error_field", "not_object_falsy"}
    \/ AttemptFailed /\ ~AttemptRepeated
    \/ /\ lastOutcome' = "object"
       /\ Len(received') >= max_results

\* C20: within one fetch the pages are requested at the offsets 0, 100,
\* 200, ... in increasing order, each at most once; a page without results,
\* a page with an error field, a request that failed after its retries and a
\* reached budget end the fetch: no further page is requested, and the
\* papers collected from the earlier pages are returned.
C20_Pagination ==
    [][/\ OffsetsInOrder'
       /\ HttpAttempt /\ attempt > 0 => offsets' = offsets
       /\ HttpAttempt /\ LastPage =>
            /\ pc' = "save"
            /\ fetchResult' = "returned"
            /\ Len(received') >= Len(received)
            /\ SubSeq(received', 1, Len(received)) = papers
            /\ lastOutcome' # "object" => received' = papers
       /\ pc \notin {"main", "request"} =>
            requests' = requests /\ offsets' = offsets]_vars

\* a second page without results ends the fetch, and the paper of the first
\* page is returned
C20_Witness ==
    /\ fetchResult = "returned"
    /\ offsets = <<0, page_size>>
    /\ lastOutcome = "no_results"
    /\ Len(papers) = 1

-----------------------------------------------------------------------------
(* The fetch loop against a server that holds given pages *)

\* a citing paper and a record that fails to parse
PageRecords == {RecA, RecNotDict}

\* what the server holds: up to MaxPages pages, none of them empty; past the
\* last page it answers with no results
ServerPages ==
    SeqsUpTo(SeqsUpTo(PageRecords, MaxPageLen) \ {<<>>}, MaxPages)

InitPages ==
    /\ pc = "request"
    /\ apiKey = TRUE
    /\ now = RunDate
    /\ max_results \in 1..MaxBudget
    /\ max_retries = MaxRetries
    /\ cache = "absent"
    /\ pages \in ServerPages
    /\ raw = <<>>
    /\ parsed = <<>>
    /\ cites_id \in {"", "cites"}
    /\ papers = <<>>
    /\ received = <<>>
    /\ start = 0
    /\ offsets = <<>>
    /\ attempt = 0
    /\ requests = 1
    /\ lastOutcome = "none"
    /\ slept = 0
    /\ fetchResult = "none"
    /\ data = <<>>
    /\ lastIo = "none"
    /\ file = AbsentFile
    /\ fileBefore = file
    /\ log = {}

\* One iteration of the fetch loop when every request succeeds at once: the
\* server answers the request for offset `start` with the page it holds
\* there
FetchPage ==
    /\ pc = "request"
    /\ LET n == (start \div page_size) + 1
           organic_results == IF n <= Len(pages) THEN pages[n] ELSE NoResults
       IN  IF organic_results = <<>>
           THEN \* if not organic_results: break
                /\ FetchReturns(papers)
                /\ slept' = 0
                /\ lastOutcome' = "no_results"
                /\ UNCHANGED <<start, log>>
           ELSE LET ps == ProcessPage(papers, organic_results, max_results,
                                      cites_id # "")
                    warns == PageWarns(papers, organic_results, max_results,
                                       cites_id # "")
                IN  /\ EndOfIteration
                    /\ lastOutcome' = "object"
                    /\ log' = IF warns
                              THEN log \cup {"Failed to parse paper"}
                              ELSE log
                    /\ IF Len(ps) < max_results
                       THEN /\ papers' = ps
                            /\ received' = ps
                            /\ UNCHANGED <<fetchResult, pc>>
                       ELSE FetchReturns(ps)
    /\ offsets' = Append(offsets, start)
    /\ requests' = requests + 1
    /\ UNCHANGED <<inputs, parsed, cites_id, attempt, data, lastIo, file>>

NextPages == FetchPage

SpecPages == InitPages /\ [][NextPages]_vars

\* the list the fetch loop collects, starting from ps, from the pages
\* `served` one after the other
RECURSIVE FetchOf(_, _, _, _)
FetchOf(ps, served, budget, byCitesId) ==
    IF Len(ps) >= budget \/ served = <<>> THEN ps
    ELSE IF Head(served) = <<>> THEN ps
    ELSE FetchOf(ProcessPage(ps, Head(served), budget, byCitesId),
                 Tail(served), budget, byCitesId)

NotRaising(r) == ~ParsePaperRaises(r)

\* the pages, each without the records that fail to parse
WithoutRaising(served) ==
    [i \in 1..Len(served) |-> SelectSeq(served[i], NotRaising)]

\* the records of the pages, one page after the other
RECURSIVE Flatten(_)
Flatten(served) ==
    IF served = <<>> THEN <<>> ELSE Head(served) \o Flatten(Tail(served))

\* the papers of the records that parse and pass the filter of the fetch
RECURSIVE KeptPapers(_, _)
KeptPapers(records, byCitesId) ==
    IF records = <<>> THEN <<>>
    ELSE IF AppendedRecords[byCitesId][Head(records)]
    THEN <<ParsedRecords[Head(records)]>>
         \o KeptPapers(Tail(records), byCitesId)
    ELSE KeptPapers(Tail(records), byCitesId)

Take(s, n) == SubSeq(s, 1, Min(n, Len(s)))

\* every record of every page was handed to _parse_paper, and one raised
AllParsedOneRaised ==
    /\ Len(received) < max_results
    /\ \E i \in 1..Len(pages) : \E j \in 1..Len(pages[i]) :
            ParsePaperRaises(pages[i][j])

-----------------------------------------------------------------------------
(* C21: corrected *)

\* C21 as stated: a record whose parsing raises is skipped and logged, no
\* exception leaves the fetch, and the returned list is the one the fetch
\* returns for the same pages with the failing records taken out.
C21_SkipEqualsRemoval ==
    pc = "save" =>
        /\ fetchResult = "returned"
        /\ AllParsedOneRaised => "Failed to parse paper" \in log
        /\ received = FetchOf(<<>>, WithoutRaising(pages), max_results,
                              cites_id # "")

\* C21, amended: a record whose parsing raises is skipped and logged, no
\* exception leaves the fetch, and the returned list holds, in order and up
\* to max_results, the papers of the other records of all the pages that
\* pass the filter; it is the list returned for the pages without the
\* failing records whenever taking them out leaves no page empty (an empty
\* page ends the fetch, a page of failing records only does not).
C21_SkipKeepsTheOthers ==
    pc = "save" =>
        /\ fetchResult = "returned"
        /\ AllParsedOneRaised => "Failed to parse paper" \in log
        /\ received = Take(KeptPapers(Flatten(pages), cites_id # ""),
                           max_results)
        /\ (\A i \in 1..Len(pages) : WithoutRaising(pages)[i] # <<>>) =>
               received = FetchOf(<<>>, WithoutRaising(pages), max_results,
                                  cites_id # "")

\* a failing record at the head of the first page, and papers collected from
\* the rest of that page and from the next page
C21_Witness ==
    /\ pc = "save"
    /\ max_results = 2
    /\ pages = <<<<RecNotDict, RecA>>, <<RecA>>>>
    /\ Len(received) = 2
    /\ "Failed to parse paper" \in log

-----------------------------------------------------------------------------
(* C22: confirmed *)

\* the first HTTP attempt of a page request that is not the first page
\* request of the fetch
NextPageRequest ==
    /\ HttpAttempt
    /\ attempt = 0
    /\ offsets # <<>>

\* C22: between two consecutive page requests of a fetch the program sleeps
\* the fixed delay of 1 second: a page request that follows another one is
\* only issued after that sleep.
C22_DelayBetweenPages ==
    [][NextPageRequest => slept = RateLimitDelay]_vars

\* a second page request was issued, after the delay that followed the
\* first page, and its page was processed too
C22_Witness ==
    /\ offsets = <<0, page_size>>
    /\ start = 2 * page_size
    /\ lastOutcome = "object"
    /\ slept = RateLimitDelay

-----------------------------------------------------------------------------
(* C23: confirmed *)

\* what each heuristic derives from a record, in the order (1) arXiv
\* identifier in the link, (2) ISO date, (3) "Month Day, Year",
\* (4) MM/DD/YYYY, (5) "Month Year" with day 15, (6) bare year with 01-01:
\* <<>> where the heuristic does not match
Heuristics(r) ==
    LET sm == IF r.publication_info = "object" THEN r.summary ELSE NoSummary
    IN  << IF r.link.kind = "arxiv" THEN <<ArxivDate(r.link)>> ELSE <<>>,
           IF sm.iso = <<>> THEN <<>>
           ELSE <<MkDate(sm.iso[1].y, sm.iso[1].m, sm.iso[1].d)>>,
           IF sm.mdy = <<>> THEN <<>>
           ELSE <<MkDate(sm.mdy[1].y, MonthNumber(sm.mdy[1].name),
                         sm.mdy[1].d)>>,
           IF sm.slash = <<>> THEN <<>>
           ELSE <<MkDate(sm.slash[1].y, sm.slash[1].p1, sm.slash[1].p2)>>,
           IF sm.my = <<>> THEN <<>>
           ELSE <<MkDate(sm.my[1].y, MonthNumber(sm.my[1].name), 15)>>,
           IF sm.year = <<>> THEN <<>>
           ELSE <<MkDate(sm.year[1], 1, 1)>> >>

\* the heuristics of r that match
Matching(r) == {k \in 1..6 : Heuristics(r)[k] # <<>>}

\* the first heuristic of r that matches
FirstMatching(r) ==
    CHOOSE k \in Matching(r) : \A j \in Matching(r) : k <= j

\* C23: the date of a parsed record is the one derived by the first
\* heuristic, in the fixed order, that matches, whichever later heuristics
\* match as well; it is the sentinel when none matches.
C23_FirstMatchWins ==
    pc = "parsed" =>
        LET date == IF Matching(raw) = {} THEN SentinelDate
                    ELSE Heuristics(raw)[FirstMatching(raw)][1]
        IN  /\ parsed[1].published_date_sort = date
            /\ parsed[1].published_date = date

\* a record without an arXiv link or an ISO date whose summary matches
\* "Month Day, Year" and every later pattern: the date is Feb 28, 2023
C23_Witness ==
    /\ pc = "parsed"
    /\ Matching(raw) = {3, 4, 5, 6}
    /\ parsed[1].published_date_sort = MkDate(2023, 2, 28)

-----------------------------------------------------------------------------
(* C24: confirmed *)

\* how often the paper p occurs in the list ps
Occurrences(ps, p) == Cardinality({i \in 1..Len(ps) : ps[i] = p})

\* qs holds the papers of ps, each as often as ps does, in some order
Reordered(ps, qs) ==
    /\ Len(qs) = Len(ps)
    /\ \A i \in 1..Len(ps) : Occurrences(qs, ps[i]) = Occurrences(ps, ps[i])

\* fetch_citations returns in this step
FetchCitationsReturns == fetchResult # "returned" /\ fetchResult' = "returned"

\* C24: Paper records are never changed after parsing: the sort of
\* fetch_citations only reorders the collected list, and from then on
\* (_calculate_stats, _generate_timeline, save_data, the exception handler
\* of main) the list keeps its papers, their fields and its order.
C24_PapersNotMutated ==
    [][/\ FetchCitationsReturns => Reordered(received', papers')
       /\ fetchResult = "returned" => papers' = papers]_vars

\* a saved run whose two papers were put in another order by the sort
C24_Witness ==
    /\ pc = "done"
    /\ file.state = "written"
    /\ Len(papers) = 2
    /\ papers # received
    /\ Reordered(received, papers)
    /\ data[1].total_citations = 2

-----------------------------------------------------------------------------
(* C25: code_bug *)

\* One run of main() in which every step that can be taken is taken in the
\* end: each HTTP request completes and main() runs on.  The fetch loop is
\* followed past the last page the model tells apart.
NextLive == Next \/ AttemptBeyond

SpecLive == Init /\ [][NextLive]_vars /\ WF_vars(NextLive)

\* an HTTP attempt did not bring a response the loop can read
SomeAttemptFailed == lastOutcome \in {"error", "malformed_json"}

\* C25: in a run whose every HTTP attempt succeeds, the fetch loop ends in
\* the end, also when the pages it gets are not empty and none of their
\* records is collected.
C25_FetchTerminates ==
    <>(SomeAttemptFailed \/ (pc # "request" /\ pc # "main"))

-----------------------------------------------------------------------------
(* C26: confirmed *)

\* C26: at every point of a fetch the collected papers are at most
\* max_results, and so are the papers fetch_citations returns.
C26_AtMostMaxResults ==
    /\ Len(papers) <= max_results
    /\ Len(received) <= max_results

\* a budget of 2: one paper from the first page, and a second page with two
\* more citing papers, of which only one is taken
C26_Witness ==
    /\ pc = "save"
    /\ max_results = 2
    /\ pages = <<<<RecA>>, <<RecA, RecA>>>>
    /\ Len(papers) = 2

-----------------------------------------------------------------------------
(* C27: code_bug *)

ReportsSuccess == "Citation tracking completed successfully!" \in log

\* the file holds the whole snapshot of the papers of this run
FileHoldsSnapshot ==
    /\ file.state = "written"
    /\ file.content[1] = SnapshotData(papers, now)

\* C27: a run that reports successful completion has written the complete
\* snapshot of its papers and statistics; a run whose snapshot write failed
\* does not report success and writes the fallback snapshot.
C27_SuccessMeansSaved ==
    /\ ReportsSuccess => FileHoldsSnapshot
    /\ "Failed to save data" \in log =>
            ~ReportsSuccess /\ FileHoldsFallback

=============================================================================
